---------------------------- MODULE Spec2Model ----------------------------
(***************************************************************************)
(* Model of the heartbeats library:                                        *)
(*   src/src/heartbeat-accuracy-power-shared.c  (the heartbeat engine)     *)
(*   src/src/hb-energy-odroid-smart-power.c     (the polling energy        *)
(*       backend, built with HB_ENERGY_ODROID_SMART_POWER_USE_POLLING)     *)
(*                                                                         *)
(* Numbers.  The engine computes in C doubles.  A double is modelled as an *)
(* exact number (n/d) * 10^e kept in a canonical form, so that two values  *)
(* are the same number iff they are the same record.  The rounding of      *)
(* double arithmetic (relative error 2^-53) is not modelled.  The          *)
(* narrowing of a double to a C float (24-bit significand) is modelled:    *)
(* it is the identity on the numbers a float represents exactly and gives  *)
(* a value marked rnd (a number that is not the exact one) otherwise.      *)
(***************************************************************************)
EXTENDS Integers, Sequences, FiniteSets, TLC

Abs(x) == IF x < 0 THEN -x ELSE x

RECURSIVE Gcd(_, _)
Gcd(a, b) == IF b = 0 THEN a ELSE Gcd(b, a % b)

RECURSIVE Pow(_, _)
Pow(b, k) == IF k <= 0 THEN 1 ELSE b * Pow(b, k - 1)

(* Canonical form of (n/d) * 10^e with d > 0: d is coprime to n and to 10, *)
(* and n is not a multiple of 10.                                          *)
RECURSIVE Canon(_, _, _)
Canon(n, d, e) ==
  IF n = 0 THEN [n |-> 0, d |-> 1, e |-> 0]
  ELSE IF d % 2 = 0 THEN Canon(n * 5, d \div 2, e - 1)
  ELSE IF d % 5 = 0 THEN Canon(n * 2, d \div 5, e - 1)
  ELSE IF n % 10 = 0 THEN Canon(n \div 10, d, e + 1)
  ELSE LET g == Gcd(Abs(n), d) IN [n |-> n \div g, d |-> d \div g, e |-> e]

Num(n, d, e, r) ==
  LET c == Canon(n, d, e) IN [n |-> c.n, d |-> c.d, e |-> c.e, rnd |-> r]

(* (double) of an integer *)
D(i) == Num(i, 1, 0, FALSE)

(* x as a fraction over 10^m, for an m <= x.e *)
Scaled(x, m) == IF x.n = 0 THEN 0 ELSE x.n * Pow(10, x.e - m)

Min2(a, b) == IF a < b THEN a ELSE b

(* In Add, Mul and Div each argument is first bound to its value, written  *)
(* as the choice from a one-element set, so that it is evaluated once      *)
(* however deep the expression passed is.                                  *)
Add(x0, y0) ==
  CHOOSE z \in
    { LET m == IF x.n = 0 THEN y.e ELSE IF y.n = 0 THEN x.e ELSE Min2(x.e, y.e)
      IN  Num(Scaled(x, m) * y.d + Scaled(y, m) * x.d, x.d * y.d, m, x.rnd \/ y.rnd)
      : x \in {x0}, y \in {y0} } : TRUE

Neg(x) == [x EXCEPT !.n = -x.n]

Sub(x, y) == Add(x, Neg(y))

Mul(x0, y0) ==
  CHOOSE z \in
    { LET g1 == Gcd(Abs(x.n), y.d)
          g2 == Gcd(Abs(y.n), x.d)
      IN  Num((x.n \div g1) * (y.n \div g2), (x.d \div g2) * (y.d \div g1),
              x.e + y.e, x.rnd \/ y.rnd)
      : x \in {x0}, y \in {y0} } : TRUE

(* x / y for y # 0 *)
Div(x0, y0) ==
  CHOOSE z \in
    { LET s  == IF y.n < 0 THEN -1 ELSE 1
          g1 == Gcd(Abs(x.n), Abs(y.n))
          g2 == Gcd(x.d, y.d)
      IN  Num(s * (x.n \div g1) * (y.d \div g2), (x.d \div g2) * (Abs(y.n) \div g1),
              x.e - y.e, x.rnd \/ y.rnd)
      : x \in {x0}, y \in {y0} } : TRUE

RECURSIVE OddPart(_)
OddPart(n) == IF n # 0 /\ n % 2 = 0 THEN OddPart(n \div 2) ELSE n

(* The numbers a C float holds exactly: m * 2^k with |m| < 2^24 (the       *)
(* exponent range is not reached by the values of the model).              *)
FloatExact(x) ==
  /\ ~x.rnd
  /\ x.d = 1
  /\ IF x.e >= 0
       THEN /\ x.e <= 10
            /\ OddPart(Abs(x.n)) <= (2^24 - 1) \div Pow(5, x.e)
       ELSE /\ -x.e <= 10
            /\ Abs(x.n) % Pow(5, -x.e) = 0
            /\ OddPart(Abs(x.n) \div Pow(5, -x.e)) < 2^24

(* (float) x, and the narrowing of a double returned as float *)
ToFloat(x) == IF FloatExact(x) THEN x ELSE [x EXCEPT !.rnd = TRUE]

(* the literals 1000000000 / 1000000000.0 and 1000000.0 of the source *)
NSEC == Num(1, 1, 9, FALSE)
UJ   == Num(1, 1, 6, FALSE)


(* what a read of memory that was never written yields *)
JUNK == [n |-> 0, d |-> 0, e |-> 0, rnd |-> TRUE]

-----------------------------------------------------------------------------
(* Bounds of the model *)
MaxBeats  == 5    \* record calls per run
MaxWindow == 2    \* window_size ranges over 1..MaxWindow
MaxDepth  == 2    \* buffer_depth ranges over 1..MaxDepth

MaxSamples == 3   \* samples the worker delivers per run
MaxReads  == 2    \* read calls per run

(* Inputs of a record call *)
Threads    == {1, 2}          \* producer threads; a thread passes its id as tag
Accuracies == {D(0), D(1)}    \* the accuracy argument
Gaps       == {1, 3}          \* ns the clock advances between two readings
Readings   == {0, 2}          \* energymon fread results (micro joules)

(* Inputs of the polling backend *)
Samples == {D(0), D(3)}        \* watts the meter reports (the power drawn)
OspGaps == {2}                 \* ns the clock advances before a read call

(* A run draws its inputs from one of these environments.  Each varies the   *)
(* inputs of one part of the engine and holds the others fixed:              *)
(*   "accuracy": one producer; accuracy and clock gap vary                   *)
(*   "energy":   one producer; energy reading and clock gap vary             *)
(*   "log":      two producers; buffer_depth and the log sink vary           *)
Environments ==
  { [name |-> "accuracy", threads |-> {1}, accuracies |-> Accuracies,
     gaps |-> Gaps, readings |-> {0}, window_sizes |-> 1..MaxWindow,
     buffer_depths |-> {MaxDepth}, log_names |-> {FALSE}],
    [name |-> "energy", threads |-> {1}, accuracies |-> {D(1)},
     gaps |-> Gaps, readings |-> Readings, window_sizes |-> 1..MaxWindow,
     buffer_depths |-> {MaxDepth}, log_names |-> {FALSE}],
    [name |-> "log", threads |-> Threads, accuracies |-> {D(1)},
     gaps |-> {1}, readings |-> {0}, window_sizes |-> {1},
     buffer_depths |-> 1..MaxDepth, log_names |-> BOOLEAN] }

VARIABLES
  envName,      \* the name of the run's environment (never changes)
  phase,        \* "none" | "running" | "failed" | "finished"
  res,          \* the sub-resources of the engine and what became of each
  acquired,     \* the sub-resources init had set up when heartbeat_finish began
  finish_used,  \* the sub-resources heartbeat_finish used, destroyed or removed
  hb,           \* heartbeat_t: the private fields and the three window arrays
  state,        \* hb->state: the published record
  log,          \* hb->log: the log ring, slot -> record
  text_file,    \* the chunks written to hb->text_file, one per flush
  mutex,        \* owner of hb->mutex, 0 when free
  pc,           \* position of each thread inside heartbeat_acc
  loc,          \* locals of each thread inside heartbeat_acc
  clock,        \* CLOCK_REALTIME
  hist          \* history: per beat, the call's inputs and the record it logged

(* The polling backend: its statics, its two threads and their history *)
VARIABLES
  device,                \* "NULL" | "open": the hid_device pointer
  osp_start_time,        \* the clock when init succeeded
  osp_total_energy,      \* joules accrued by the reads
  osp_hb_pwr_avg,        \* running average of the samples since the last read
  osp_hb_pwr_avg_last,   \* the last positive average a read saw
  osp_hb_pwr_avg_count,  \* number of samples in the running average
  osp_polling_mutex,     \* "uninit" | "free" | "worker" | "caller" | "destroyed"
  osp_polling_thread,    \* position of the worker in osp_poll_device, "none": no worker
  osp_do_polling,        \* the stop flag
  watts,                 \* the worker's local: the sample it parsed
  caller,                \* position of the calling thread inside the backend
  call,                  \* the calling thread's arguments and locals
  pending,               \* history: samples averaged since the last reset
  reads,                 \* history: the reads that returned, and the last one
  osp_log                \* history: counts of backend calls and of worker updates,
                         \* and what finish last joined and destroyed ("-": nothing)

ospVars == <<device, osp_start_time, osp_total_energy, osp_hb_pwr_avg,
             osp_hb_pwr_avg_last, osp_hb_pwr_avg_count, osp_polling_mutex,
             osp_polling_thread, osp_do_polling, watts, caller, call, pending,
             reads, osp_log>>

vars == <<envName, phase, res, acquired, finish_used, hb, state, log, text_file,
          mutex, pc, loc, clock, hist, ospVars>>

-----------------------------------------------------------------------------
(* hb_window_average_accuracy: the incremental sliding window              *)

(* a[i := v] for an array whose unwritten slots hold no value *)
Store(a, i, v) == (i :> v) @@ a

RECURSIVE SumInt(_, _)
SumInt(a, last) == IF last < 0 THEN D(0) ELSE Add(SumInt(a, last - 1), D(a[last]))

RECURSIVE SumDbl(_, _)
SumDbl(a, last) == IF last < 0 THEN D(0) ELSE Add(SumDbl(a, last - 1), a[last])

(* faulty variant: the test is off by one *)
WindowFullMutant(current_index, window_size) == current_index = window_size + 1

(* line 249: after the increment, has current_index reached window_size? *)
WindowFull(current_index, window_size) == current_index = window_size

(* the branch taken while the window has not been filled once *)
WarmUp(h, window_size, time, accuracy, energy) ==
  LET ci  == h.current_index
      w   == Store(h.window, ci, time)
      aw  == Store(h.accuracy_window, ci, accuracy)
      pw  == Store(h.power_window, ci, energy)
      sum_time == SumInt(w, ci)
      sum_acc  == SumDbl(aw, ci)
      sum_pow  == SumDbl(pw, ci)
      average_time     == Div(sum_time, D(ci + 1))
      average_accuracy == Div(sum_acc, D(ci + 1))
      full == WindowFull(ci + 1, window_size)
  IN  [hb |-> [h EXCEPT !.window = w,
                        !.accuracy_window = aw,
                        !.power_window = pw,
                        !.last_window_time = sum_time,
                        !.last_window_energy = sum_pow,
                        !.last_average_time = average_time,
                        !.last_average_accuracy = average_accuracy,
                        !.current_index = IF full THEN 0 ELSE ci + 1,
                        !.steady_state = IF full THEN 1 ELSE h.steady_state],
       average_time     |-> average_time,
       average_accuracy |-> average_accuracy,
       window_time      |-> sum_time,
       window_energy    |-> sum_pow]

(* the branch taken once the window is full; ci is hb->current_index, the *)
(* slot whose old sample leaves the window and is overwritten              *)
SteadyStateAt(h, ci, window_size, time, accuracy, energy) ==
  LET average_time ==
        Add(Sub(h.last_average_time, Div(D(h.window[ci]), D(window_size))),
            Div(D(time), D(window_size)))
      average_accuracy ==
        Add(Sub(h.last_average_accuracy,
                Div(h.accuracy_window[ci], D(window_size))),
            Div(accuracy, D(window_size)))
      window_time   == Add(Sub(h.last_window_time, D(h.window[ci])), D(time))
      window_energy == Add(Sub(h.last_window_energy, h.power_window[ci]), energy)
  IN  [hb |-> [h EXCEPT !.last_average_time = average_time,
                        !.last_average_accuracy = average_accuracy,
                        !.last_window_time = window_time,
                        !.last_window_energy = window_energy,
                        !.window = Store(h.window, ci, time),
                        !.accuracy_window = Store(h.accuracy_window, ci, accuracy),
                        !.power_window = Store(h.power_window, ci, energy),
                        !.current_index =
                           IF ci + 1 = window_size THEN 0 ELSE ci + 1],
       average_time     |-> average_time,
       average_accuracy |-> average_accuracy,
       window_time      |-> window_time,
       window_energy    |-> window_energy]

(* faulty variant: always evicts and overwrites slot 0 *)
SteadyStateMutant(h, window_size, time, accuracy, energy) ==
  [SteadyStateAt(h, 0, window_size, time, accuracy, energy)
     EXCEPT !.hb.current_index =
              IF h.current_index + 1 = window_size THEN 0 ELSE h.current_index + 1]

SteadyState(h, window_size, time, accuracy, energy) ==
  SteadyStateAt(h, h.current_index, window_size, time, accuracy, energy)

(* fps = (1.0 / (float) average_time)*1000000000, returned as float *)
Fps(average_time) == ToFloat(Mul(Div(D(1), ToFloat(average_time)), NSEC))

(* *power_rate = window_energy/(window_time / 1000000000.0) *)
PowerRate(window_energy, window_time) == Div(window_energy, Div(window_time, NSEC))

hb_window_average_accuracy(h, window_size, time, accuracy, energy) ==
  LET r == IF h.steady_state = 0
             THEN WarmUp(h, window_size, time, accuracy, energy)
             ELSE SteadyState(h, window_size, time, accuracy, energy)
  IN  [hb            |-> r.hb,
       fps           |-> Fps(r.average_time),
       accuracy_rate |-> r.average_accuracy,
       power_rate    |-> PowerRate(r.window_energy, r.window_time)]

-----------------------------------------------------------------------------
(* heartbeat_acc_pow_init and heartbeat_finish                             *)

(* The steps of init that can fail, in the order init takes them. *)
FailPoints == << "malloc_hb", "energymon", "HB_alloc_state", "fopen_log", "getenv",
                 "HB_alloc_log", "malloc_window", "malloc_accuracy_window",
                 "malloc_power_window", "fopen_binary" >>

StepNo(step) == CHOOSE i \in 1..Len(FailPoints) : FailPoints[i] = step

(* init got past `step` when it fails at `fail` ("none": it does not fail) *)
Passed(fail, step) == fail = "none" \/ StepNo(fail) > StepNo(step)

NoResources ==
  [hb |-> "none", em |-> "uninit", state |-> "null", text_file |-> "null",
   filename |-> "uninit", log |-> "uninit", window |-> "null",
   accuracy_window |-> "null", power_window |-> "null", mutex |-> "uninit",
   counters |-> "uninit", artifact |-> "absent", crashed |-> FALSE]

(* What init has set up when it reaches the failure `fail`, or its end. *)
InitProgress(log_name, fail) ==
  [hb       |-> IF Passed(fail, "malloc_hb") THEN "alloc" ELSE "none",
   em       |-> IF Passed(fail, "energymon") THEN "init" ELSE "uninit",
   state    |-> IF Passed(fail, "HB_alloc_state") THEN "alloc" ELSE "null",
   text_file |-> IF log_name /\ Passed(fail, "fopen_log") THEN "open" ELSE "null",
   filename |-> IF Passed(fail, "getenv") THEN "set" ELSE "uninit",
   log      |-> IF Passed(fail, "HB_alloc_log") THEN "alloc"
                ELSE IF fail = "HB_alloc_log" THEN "null" ELSE "uninit",
   window   |-> IF Passed(fail, "malloc_window") THEN "alloc" ELSE "null",
   accuracy_window |->
                IF Passed(fail, "malloc_accuracy_window") THEN "alloc" ELSE "null",
   power_window |->
                IF Passed(fail, "malloc_power_window") THEN "alloc" ELSE "null",
   mutex    |-> IF Passed(fail, "malloc_power_window") THEN "init" ELSE "uninit",
   counters |-> IF Passed(fail, "malloc_power_window") THEN "init" ELSE "uninit",
   artifact |-> IF Passed(fail, "fopen_binary") THEN "present" ELSE "absent",
   crashed  |-> FALSE]

(* the sub-resources init has acquired or initialized in r *)
Acquired(r) ==
  {f \in {"em", "state", "text_file", "filename", "log", "window",
          "accuracy_window", "power_window", "mutex"} :
       r[f] \in {"init", "alloc", "open", "set"}}
  \cup (IF r.counters = "init" THEN {"buffer_index"} ELSE {})

(* The line fprintf writes for a record: beat, tag and timestamp are printed *)
(* exactly; the nine %f columns are left out of the model.                   *)
Line(rec) == [beat |-> rec.beat, tag |-> rec.tag, timestamp |-> rec.timestamp]

(* what a read of hb->log[i] outside the ring, or of a slot never written, may give *)
GarbageLine == [beat |-> -1, tag |-> -1, timestamp |-> -1]

(* HB_alloc_log(pid, buffer_depth): the slots of the ring it allocates, sized *)
(* exactly buffer_depth.                                                      *)
HB_alloc_log(buffer_depth) == 0..(buffer_depth - 1)

(* hb_flush_buffer: the chunks the loop over log[0..nrecords-1] may write.   *)
(* A slot outside the allocated ring: reading it gives what was stored there *)
(* or garbage.                                                               *)
hb_flush_buffer(lg, nrecords, buffer_depth) ==
  { [i \in 1..nrecords |->
       IF (i - 1) \notin DOMAIN lg \/ ((i - 1) \notin HB_alloc_log(buffer_depth) /\ g)
         THEN GarbageLine ELSE Line(lg[i - 1])] : g \in BOOLEAN }

(* The values hb->state->buffer_index may hold when hb_flush_buffer reads it. *)
FlushCount(r, st) == IF r.counters = "init" THEN {st.buffer_index} ELSE {0, 1}

Freed(status) == IF status = "alloc" THEN "freed" ELSE status

(* heartbeat_finish(hb) for hb # NULL: the outcomes, each with the resources  *)
(* afterwards, what finish used, and the chunk it flushed (<<>>: none).       *)
heartbeat_finish(r, st, lg) ==
  LET r1 == [r EXCEPT !.mutex = "destroyed",
                      !.window = Freed(r.window),
                      !.accuracy_window = Freed(r.accuracy_window),
                      !.power_window = Freed(r.power_window)]
      u1 == {"mutex"} \cup {f \in {"window", "accuracy_window", "power_window"} :
                               r[f] = "alloc"}
      rest(rr, uu, chunk) ==
        [res  |-> [rr EXCEPT !.artifact = IF rr.artifact = "present" /\ rr.filename = "set"
                                            THEN "removed" ELSE rr.artifact,
                             !.em = "finished",
                             !.hb = "freed"],
         used |-> uu \cup {"filename", "em"},
         chunk |-> chunk,
         flushed |-> rr.text_file = "closed"]
  IN  IF r.text_file # "open"
        THEN { rest(r1, u1, <<>>) }
        ELSE UNION { IF n > 0 /\ r.log # "alloc"
                       THEN { [res  |-> [r1 EXCEPT !.crashed = TRUE],
                               used |-> u1 \cup {"text_file", "buffer_index", "log"},
                               chunk |-> <<>>,
                               flushed |-> FALSE] }
                       ELSE { rest([r1 EXCEPT !.text_file = "closed"],
                                   u1 \cup {"text_file", "buffer_index"}
                                      \cup (IF n > 0 THEN {"log"} ELSE {}),
                                   c) : c \in hb_flush_buffer(lg, n, st.buffer_depth) }
                   : n \in FlushCount(r, st) }

(* faulty variant: init leaves a non-zero global_accuracy *)
NewHbMutant ==
  [first_timestamp |-> -1, last_timestamp |-> -1, last_energy |-> JUNK,
   window |-> <<>>, accuracy_window |-> <<>>, power_window |-> <<>>,
   current_index |-> 0, steady_state |-> 0,
   last_average_time |-> JUNK, last_average_accuracy |-> JUNK,
   last_window_time |-> JUNK, last_window_energy |-> JUNK,
   global_accuracy |-> D(1), total_energy |-> D(0)]

(* the environment of the run *)
env == CHOOSE e \in Environments : e.name = envName

(* heartbeat_t and hb->state as init leaves them (lines 90-127); the fields  *)
(* init does not set hold JUNK, the arrays hold nothing yet.                 *)
NewHb ==
  [first_timestamp |-> -1, last_timestamp |-> -1, last_energy |-> JUNK,
   window |-> <<>>, accuracy_window |-> <<>>, power_window |-> <<>>,
   current_index |-> 0, steady_state |-> 0,
   last_average_time |-> JUNK, last_average_accuracy |-> JUNK,
   last_window_time |-> JUNK, last_window_energy |-> JUNK,
   global_accuracy |-> D(0), total_energy |-> D(0)]

NewState(window_size, buffer_depth) ==
  [window_size |-> window_size, buffer_depth |-> buffer_depth,
   counter |-> 0, buffer_index |-> 0, read_index |-> 0, valid |-> 0]

NoLocals == [tag |-> 0, accuracy |-> D(0), time |-> 0, energy |-> D(0),
             old_last_time |-> 0, old_last_energy |-> D(0)]

NoCall == [last_hb_time |-> 0, curr_hb_time |-> 0, arg_last |-> 0,
           joules |-> D(0), batch |-> <<>>, avg |-> D(0), prev |-> D(0),
           seen |-> D(0)]

(* history of the reads: how many returned, the samples their averages were *)
(* made of, the last non-zero average a read saw, and the last read         *)
NoReads == [returned |-> 0, consumed |-> 0, seen |-> D(0),
            last |-> NoCall @@ [power |-> D(0)]]

(* The backend before its init: the statics are zero (C static storage),    *)
(* no worker exists, the mutex was never initialized.                       *)
OspStatics ==
  /\ device = "NULL"
  /\ osp_start_time = 0
  /\ osp_total_energy = D(0)
  /\ osp_hb_pwr_avg = D(0)
  /\ osp_hb_pwr_avg_last = D(0)
  /\ osp_hb_pwr_avg_count = 0
  /\ osp_polling_mutex = "uninit"
  /\ osp_polling_thread = "none"
  /\ osp_do_polling = 0
  /\ watts = D(0)
  /\ caller = "idle"
  /\ call = NoCall
  /\ pending = <<>>
  /\ reads = NoReads
  /\ osp_log = [inits |-> 0, samples |-> 0, reads |-> 0, finishes |-> 0,
                join_of |-> "-", destroy_of |-> "-"]

Init ==
  /\ OspStatics
  /\ envName \in {e.name : e \in Environments}
  /\ phase = "none"
  /\ res = NoResources
  /\ acquired = {}
  /\ finish_used = {}
  /\ hb = NewHb
  /\ state = NewState(1, 1)
  /\ log = <<>>
  /\ text_file = <<>>
  /\ mutex = 0
  /\ pc = [t \in Threads |-> "idle"]
  /\ loc = [t \in Threads |-> NoLocals]
  /\ clock = 0
  /\ hist = <<>>

(* heartbeat_acc_pow_init(window_size, buffer_depth, log_name, ...), failing *)
(* at step `fail` or not at all.  On a failure after energymon it calls      *)
(* heartbeat_finish and returns NULL.                                        *)
heartbeat_acc_pow_init(window_size, buffer_depth, log_name, fail) ==
  /\ phase = "none"
  /\ fail = "fopen_log" => log_name
  /\ LET r  == InitProgress(log_name, fail)
         st == NewState(window_size, buffer_depth)
     IN  /\ state' = st
         /\ hb' = NewHb
         /\ IF fail = "none"
              THEN /\ phase' = "running"
                   /\ res' = r
                   /\ UNCHANGED <<acquired, finish_used, text_file>>
              ELSE IF fail = "malloc_hb"
              THEN /\ phase' = "failed"
                   /\ res' = r
                   /\ UNCHANGED <<acquired, finish_used, text_file>>
              ELSE IF fail = "energymon"
              THEN /\ phase' = "failed"
                   /\ res' = [r EXCEPT !.hb = "freed"]
                   /\ UNCHANGED <<acquired, finish_used, text_file>>
              ELSE \E o \in heartbeat_finish(r, st, <<>>) :
                     /\ phase' = "failed"
                     /\ res' = o.res
                     /\ acquired' = Acquired(r)
                     /\ finish_used' = o.used
                     /\ text_file' = IF o.flushed THEN <<o.chunk>> ELSE <<>>
  /\ UNCHANGED <<ospVars, envName, log, mutex, pc, loc, clock, hist>>

(* heartbeat_finish(hb) on the engine a successful init returned, called    *)
(* when no record call is in progress.                                      *)
Finish ==
  /\ phase = "running"
  /\ \A t \in Threads : pc[t] = "idle"
  /\ \E o \in heartbeat_finish(res, state, log) :
       /\ phase' = "finished"
       /\ res' = o.res
       /\ acquired' = Acquired(res)
       /\ finish_used' = o.used
       /\ text_file' = IF o.flushed THEN Append(text_file, o.chunk) ELSE text_file
  /\ UNCHANGED <<ospVars, envName, hb, state, log, mutex, pc, loc, clock, hist>>

(* heartbeat_finish(NULL), after init returned NULL: the body is skipped. *)
FinishNull ==
  /\ phase = "failed"
  /\ phase' = "finished"
  /\ UNCHANGED <<ospVars, envName, res, acquired, finish_used, hb, state, log, text_file, mutex,
                 pc, loc, clock, hist>>

-----------------------------------------------------------------------------
(* heartbeat_acc(hb, tag, accuracy)                                          *)

(* faulty variant: the lock is not taken *)
MutexFreeMutant == TRUE

(* pthread_mutex_lock returns once no thread holds the mutex *)
MutexFree == mutex = 0

Started == Len(hist) + Cardinality({t \in Threads : pc[t] # "idle"})

(* line 309: the call enters and takes the lock *)
Lock(t, accuracy) ==
  /\ phase = "running"
  /\ pc[t] = "idle"
  /\ Started < MaxBeats
  /\ MutexFree
  /\ mutex' = t
  /\ pc' = [pc EXCEPT ![t] = "locked"]
  /\ loc' = [loc EXCEPT ![t] = [NoLocals EXCEPT !.tag = t, !.accuracy = accuracy]]
  /\ UNCHANGED <<ospVars, envName, phase, res, acquired, finish_used, hb, state, log, text_file,
                 clock, hist>>

(* lines 311-320: read the old baselines, the clock and the energy counter *)
ReadSensors(t, gap, reading) ==
  /\ pc[t] = "locked"
  /\ clock' = clock + gap
  /\ LET energy == Div(D(reading), UJ)
     IN  /\ loc' = [loc EXCEPT ![t].old_last_time = hb.last_timestamp,
                               ![t].old_last_energy = hb.last_energy,
                               ![t].time = clock',
                               ![t].energy = energy]
         /\ hb' = [hb EXCEPT !.last_timestamp = clock', !.last_energy = energy]
  /\ pc' = [pc EXCEPT ![t] = "sampled"]
  /\ UNCHANGED <<ospVars, envName, phase, res, acquired, finish_used, state, log, text_file, mutex,
                 hist>>

(* lines 322-348: the first beat *)
FirstBeat(h, st, l) ==
  [hb |-> [h EXCEPT !.first_timestamp = l.time,
                    !.last_timestamp = l.time,
                    !.last_energy = l.energy,
                    !.window = Store(h.window, 0, 0),
                    !.accuracy_window = Store(h.accuracy_window, 0, l.accuracy),
                    !.power_window = Store(h.power_window, 0, D(0)),
                    !.global_accuracy = Add(h.global_accuracy, l.accuracy),
                    !.total_energy = D(0)],
   index |-> 0,
   rec |-> [beat |-> st.counter, tag |-> l.tag, timestamp |-> l.time,
            window_rate |-> D(0), instant_rate |-> D(0), global_rate |-> D(0),
            window_accuracy |-> l.accuracy, instant_accuracy |-> l.accuracy,
            global_accuracy |-> l.accuracy,
            window_power |-> D(0), instant_power |-> D(0), global_power |-> D(0)],
   state |-> [st EXCEPT !.counter = st.counter + 1,
                        !.buffer_index = st.buffer_index + 1,
                        !.valid = 1],
   flush |-> FALSE]

(* lines 395-402: the wraparound of buffer_index and of read_index *)
Wrap(st) ==
  [st EXCEPT !.buffer_index = IF st.buffer_index % st.buffer_depth = 0
                                THEN 0 ELSE st.buffer_index,
             !.read_index = IF st.read_index % st.buffer_depth = 0
                              THEN 0 ELSE st.read_index]

(* faulty variant: does not count the current beat *)
GlobalRateMutant(counter, elapsed) == Mul(Div(D(counter), elapsed), NSEC)

(* lines 361-363: global_heartrate *)
GlobalRate(counter, elapsed) == Mul(Div(D(counter + 1), elapsed), NSEC)

EnergyDeltaMutant(energy, old_last_energy) == energy

(* lines 357, 372, 375: the energy of one beat, energy - old_last_energy *)
EnergyDelta(energy, old_last_energy) == Sub(energy, old_last_energy)

(* lines 350-403: every later beat *)
LaterBeat(h, st, l) ==
  LET dt == l.time - l.old_last_time
      de == EnergyDelta(l.energy, l.old_last_energy)
      h0 == [h EXCEPT !.last_timestamp = l.time]
      w  == hb_window_average_accuracy(h0, st.window_size, dt, l.accuracy, de)
      elapsed == D(l.time - h.first_timestamp)
      global_heartrate  == GlobalRate(st.counter, elapsed)
      instant_heartrate == Mul(Div(D(1), D(dt)), NSEC)
      sum_accuracy == Add(w.hb.global_accuracy, l.accuracy)
      total_energy == Add(w.hb.total_energy, de)
      st1 == [st EXCEPT !.buffer_index = st.buffer_index + 1,
                        !.counter = st.counter + 1,
                        !.read_index = st.read_index + 1]
  IN  [hb |-> [w.hb EXCEPT !.global_accuracy = sum_accuracy,
                           !.total_energy = total_energy],
       index |-> st.buffer_index,
       rec |-> [beat |-> st.counter, tag |-> l.tag, timestamp |-> l.time,
                window_rate |-> w.fps,
                instant_rate |-> instant_heartrate,
                global_rate |-> global_heartrate,
                window_accuracy |-> w.accuracy_rate,
                instant_accuracy |-> l.accuracy,
                global_accuracy |-> Div(sum_accuracy, D(st.counter + 1)),
                window_power |-> w.power_rate,
                instant_power |-> Mul(Div(de, D(dt)), NSEC),
                global_power |-> Mul(Div(total_energy, elapsed), NSEC)],
       state |-> Wrap(st1),
       flush |-> st1.buffer_index % st.buffer_depth = 0]

(* lines 322-403: the beat is computed, logged and, at wraparound, flushed *)
Record(t) ==
  /\ pc[t] = "sampled"
  /\ \E b \in {IF hb.first_timestamp = -1
                 THEN FirstBeat(hb, state, loc[t])
                 ELSE LaterBeat(hb, state, loc[t])} :
     LET lg == Store(log, b.index, b.rec)
     IN  /\ hb' = b.hb
         /\ state' = b.state
         /\ log' = lg
         /\ IF b.flush /\ res.text_file = "open"
              THEN \E c \in hb_flush_buffer(lg, state.buffer_index + 1,
                                            state.buffer_depth) :
                     text_file' = Append(text_file, c)
              ELSE text_file' = text_file
         /\ hist' = Append(hist, [thread |-> t, accuracy |-> loc[t].accuracy,
                                  time |-> loc[t].time, energy |-> loc[t].energy,
                                  index |-> b.index, flush |-> b.flush,
                                  nrecords |-> state.buffer_index + 1,
                                  rec |-> b.rec])
  /\ pc' = [pc EXCEPT ![t] = "recorded"]
  /\ UNCHANGED <<ospVars, envName, phase, res, acquired, finish_used, mutex, loc, clock>>

(* lines 404-405: unlock and return time *)
Unlock(t) ==
  /\ pc[t] = "recorded"
  /\ mutex' = 0
  /\ pc' = [pc EXCEPT ![t] = "idle"]
  /\ UNCHANGED <<ospVars, envName, phase, res, acquired, finish_used, hb, state, log, text_file,
                 loc, clock, hist>>

Next ==
  \/ \E ws \in env.window_sizes, bd \in env.buffer_depths, ln \in env.log_names,
        f \in {FailPoints[i] : i \in 1..Len(FailPoints)} \cup {"none"} :
       heartbeat_acc_pow_init(ws, bd, ln, f)
  \/ \E t \in env.threads, a \in env.accuracies : Lock(t, a)
  \/ \E t \in env.threads, g \in env.gaps, r \in env.readings :
       ReadSensors(t, g, r)
  \/ \E t \in env.threads : Record(t)
  \/ \E t \in env.threads : Unlock(t)
  \/ Finish
  \/ FinishNull

Spec == Init /\ [][Next]_vars

-----------------------------------------------------------------------------
(* The polling backend: hb-energy-odroid-smart-power.c                       *)
(* One thread calls init, read_total and finish, one call at a time; the     *)
(* worker thread runs osp_poll_device.                                       *)

engineVars == <<envName, phase, res, acquired, finish_used, hb, state, log,
                text_file, mutex, pc, loc, hist>>

(* diff_sec(a, b) of hb-energy.h: the nanoseconds from a to b, in seconds *)
diff_sec(a, b) == Div(D(b - a), NSEC)

(* the test `x > 0` on a double *)
Positive(x) == x.n > 0

(* faulty variant: the lock is not taken *)
OspMutexFreeMutant == TRUE

(* pthread_mutex_lock(&osp_polling_mutex) returns once no thread holds it *)
OspMutexFree == osp_polling_mutex = "free"

(* faulty variant: the worker does not look at the stop flag *)
KeepPollingMutant(do_polling, dev) == dev # "NULL"

(* line 133: the loop condition of the worker *)
KeepPolling(do_polling, dev) == do_polling > 0 /\ dev # "NULL"

(* faulty variant: the carried-forward average is forgotten *)
LastKnownPowerMutant(avg, last) == avg

(* line 238: the average a read converts to energy *)
LastKnownPower(avg, last) == IF Positive(avg) THEN avg ELSE last

(* line 142: the running average with one more sample *)
RunningAverage(sample, count, avg) ==
  Div(Add(sample, Mul(D(count), avg)), D(count + 1))

(* faulty variant: the total is overwritten, not added to *)
AccrueMutant(total, power, last, curr) == Mul(power, diff_sec(last, curr))

(* line 239: osp_total_energy += osp_hb_pwr_avg_last * diff_sec(...) *)
Accrue(total, power, last, curr) == Add(total, Mul(power, diff_sec(last, curr)))

(* the steps of hb_energy_init_osp that can fail, in order *)
OspFailPoints == << "hid_init", "hid_open", "request_status", "request_start_stop",
                    "request_data", "pthread_mutex_init", "pthread_create" >>

OspStepNo(step) == CHOOSE i \in 1..Len(OspFailPoints) : OspFailPoints[i] = step

(* the mutex when init fails at step `fail`, after hid_open: initialized    *)
(* only once pthread_mutex_init has succeeded (line 209)                    *)
MutexAtFailure(fail) ==
  IF OspStepNo(fail) > OspStepNo("pthread_mutex_init") THEN "free"
  ELSE osp_polling_mutex

(* hb_energy_init_osp(), failing at step `fail` or not at all ("none").      *)
(* Called once in a run.  A failure after hid_open calls                     *)
(* hb_energy_finish_osp (lines 179, 186, 193, 211, 216) with the device      *)
(* open: it clears the flag, joins osp_polling_thread although no worker was *)
(* created (the call returns or the process dies there), destroys the mutex  *)
(* and closes the device.                                                    *)
hb_energy_init_osp(fail) ==
  /\ caller = "idle"
  /\ device = "NULL"
  /\ osp_log.inits = 0
  /\ IF fail \in {"none", "hid_init", "hid_open"}
       THEN osp_log' = [osp_log EXCEPT !.inits = @ + 1]
       ELSE TRUE
  /\ IF fail = "none"
       THEN /\ device' = "open"
            /\ osp_start_time' = clock
            /\ osp_total_energy' = D(0)
            /\ osp_do_polling' = 1
            /\ osp_hb_pwr_avg' = D(0)
            /\ osp_hb_pwr_avg_last' = D(0)
            /\ osp_hb_pwr_avg_count' = 0
            /\ osp_polling_mutex' = "free"
            /\ osp_polling_thread' = "check"
            /\ pending' = <<>>
            /\ reads' = NoReads
            /\ UNCHANGED caller
       ELSE IF fail \in {"hid_init", "hid_open"}
       THEN UNCHANGED <<device, osp_start_time, osp_total_energy, osp_do_polling,
                        osp_hb_pwr_avg, osp_hb_pwr_avg_last, osp_hb_pwr_avg_count,
                        osp_polling_mutex, osp_polling_thread, pending, reads,
                        caller>>
       ELSE /\ osp_do_polling' = 0
            /\ \E join_returns \in BOOLEAN :
                 IF join_returns
                   THEN /\ osp_polling_mutex' = "destroyed"
                        /\ device' = "NULL"
                        /\ caller' = "idle"
                        /\ osp_log' = [osp_log EXCEPT
                                         !.inits = @ + 1,
                                         !.join_of = osp_polling_thread,
                                         !.destroy_of = MutexAtFailure(fail)]
                   ELSE /\ osp_polling_mutex' = MutexAtFailure(fail)
                        /\ device' = "open"
                        /\ caller' = "crashed"
                        /\ osp_log' = [osp_log EXCEPT
                                         !.inits = @ + 1,
                                         !.join_of = osp_polling_thread]
            /\ UNCHANGED <<osp_polling_thread, pending, reads>>
            /\ IF OspStepNo(fail) >= OspStepNo("pthread_mutex_init")
                 THEN /\ osp_start_time' = clock
                      /\ osp_total_energy' = D(0)
                      /\ osp_hb_pwr_avg' = D(0)
                      /\ osp_hb_pwr_avg_last' = D(0)
                      /\ osp_hb_pwr_avg_count' = 0
                 ELSE UNCHANGED <<osp_start_time, osp_total_energy, osp_hb_pwr_avg,
                                  osp_hb_pwr_avg_last, osp_hb_pwr_avg_count>>
  /\ UNCHANGED <<engineVars, clock, watts, call>>

(* line 133: the worker evaluates its loop condition *)
PollCheck ==
  /\ osp_polling_thread = "check"
  /\ caller # "crashed"
  /\ osp_polling_thread' = IF KeepPolling(osp_do_polling, device)
                             THEN "request" ELSE "exited"
  /\ UNCHANGED <<engineVars, clock, device, osp_start_time, osp_total_energy,
                 osp_hb_pwr_avg, osp_hb_pwr_avg_last, osp_hb_pwr_avg_count,
                 osp_polling_mutex, osp_do_polling, watts, caller, call, pending,
                 reads, osp_log>>

(* lines 135-139: the data request succeeds and the reply is a sample *)
PollRequest(sample) ==
  /\ osp_polling_thread = "request"
  /\ caller # "crashed"
  /\ osp_log.samples < MaxSamples
  /\ watts' = sample
  /\ osp_polling_thread' = "lock"
  /\ UNCHANGED <<engineVars, clock, device, osp_start_time, osp_total_energy,
                 osp_hb_pwr_avg, osp_hb_pwr_avg_last, osp_hb_pwr_avg_count,
                 osp_polling_mutex, osp_do_polling, caller, call, pending, reads,
                 osp_log>>

(* lines 135-136 and 146-150: the request fails or the reply is not data;   *)
(* the worker sleeps for the polling delay and loops                        *)
PollNoSample ==
  /\ osp_polling_thread = "request"
  /\ caller # "crashed"
  /\ osp_polling_thread' = "check"
  /\ UNCHANGED <<engineVars, clock, device, osp_start_time, osp_total_energy,
                 osp_hb_pwr_avg, osp_hb_pwr_avg_last, osp_hb_pwr_avg_count,
                 osp_polling_mutex, osp_do_polling, watts, caller, call, pending,
                 reads, osp_log>>

(* line 141 *)
PollLock ==
  /\ osp_polling_thread = "lock"
  /\ caller # "crashed"
  /\ OspMutexFree
  /\ osp_polling_mutex' = "worker"
  /\ osp_polling_thread' = "average"
  /\ UNCHANGED <<engineVars, clock, device, osp_start_time, osp_total_energy,
                 osp_hb_pwr_avg, osp_hb_pwr_avg_last, osp_hb_pwr_avg_count,
                 osp_do_polling, watts, caller, call, pending, reads, osp_log>>

(* line 142 *)
PollAverage ==
  /\ osp_polling_thread = "average"
  /\ caller # "crashed"
  /\ osp_hb_pwr_avg' = RunningAverage(watts, osp_hb_pwr_avg_count, osp_hb_pwr_avg)
  /\ pending' = Append(pending, watts)
  /\ osp_polling_thread' = "count"
  /\ UNCHANGED <<engineVars, clock, device, osp_start_time, osp_total_energy,
                 osp_hb_pwr_avg_last, osp_hb_pwr_avg_count, osp_polling_mutex,
                 osp_do_polling, watts, caller, call, reads, osp_log>>

(* line 144 *)
PollCount ==
  /\ osp_polling_thread = "count"
  /\ caller # "crashed"
  /\ osp_hb_pwr_avg_count' = osp_hb_pwr_avg_count + 1
  /\ osp_log' = [osp_log EXCEPT !.samples = @ + 1]
  /\ osp_polling_thread' = "unlock"
  /\ UNCHANGED <<engineVars, clock, device, osp_start_time, osp_total_energy,
                 osp_hb_pwr_avg, osp_hb_pwr_avg_last, osp_polling_mutex,
                 osp_do_polling, watts, caller, call, pending, reads>>

(* lines 145-150: unlock, sleep for the polling delay, loop *)
PollUnlock ==
  /\ osp_polling_thread = "unlock"
  /\ caller # "crashed"
  /\ osp_polling_mutex' = "free"
  /\ osp_polling_thread' = "check"
  /\ UNCHANGED <<engineVars, clock, device, osp_start_time, osp_total_energy,
                 osp_hb_pwr_avg, osp_hb_pwr_avg_last, osp_hb_pwr_avg_count,
                 osp_do_polling, watts, caller, call, pending, reads, osp_log>>

osp_poll_device ==
  \/ PollCheck
  \/ \E sample \in Samples : PollRequest(sample)
  \/ PollNoSample
  \/ PollLock
  \/ PollAverage
  \/ PollCount
  \/ PollUnlock

(* the timestamp the previous read ended at, the start time before any read *)
PrevTs == IF reads.returned = 0 THEN osp_start_time ELSE reads.last.curr_hb_time

(* hb_energy_read_total_osp(last_hb_time, curr_hb_time), lines 227-233: the  *)
(* clock has advanced by gap; without a device the call returns -1           *)
ReadCall(last_hb_time, gap) ==
  /\ caller = "idle"
  /\ osp_log.reads < MaxReads
  /\ osp_log' = [osp_log EXCEPT !.reads = @ + 1]
  /\ clock' = clock + gap
  /\ IF device = "NULL"
       THEN UNCHANGED <<caller, call>>
       ELSE /\ caller' = "read_lock"
            /\ call' = [NoCall EXCEPT
                          !.arg_last = last_hb_time,
                          !.last_hb_time = IF last_hb_time < 0 THEN osp_start_time
                                           ELSE last_hb_time,
                          !.curr_hb_time = clock',
                          !.prev = osp_total_energy,
                          !.seen = reads.seen]
  /\ UNCHANGED <<engineVars, device, osp_start_time, osp_total_energy, osp_hb_pwr_avg,
                 osp_hb_pwr_avg_last, osp_hb_pwr_avg_count, osp_polling_mutex,
                 osp_polling_thread, osp_do_polling, watts, pending, reads>>

(* line 236 *)
ReadLock ==
  /\ caller = "read_lock"
  /\ OspMutexFree
  /\ osp_polling_mutex' = "caller"
  /\ caller' = "read_last"
  /\ UNCHANGED <<engineVars, clock, device, osp_start_time, osp_total_energy,
                 osp_hb_pwr_avg, osp_hb_pwr_avg_last, osp_hb_pwr_avg_count,
                 osp_polling_thread, osp_do_polling, watts, call, pending, reads,
                 osp_log>>

(* line 238; the history notes the samples the average it read is made of *)
ReadLast ==
  /\ caller = "read_last"
  /\ osp_hb_pwr_avg_last' = LastKnownPower(osp_hb_pwr_avg, osp_hb_pwr_avg_last)
  /\ call' = [call EXCEPT !.batch = pending, !.avg = osp_hb_pwr_avg]
  /\ caller' = "read_accrue"
  /\ UNCHANGED <<engineVars, clock, device, osp_start_time, osp_total_energy,
                 osp_hb_pwr_avg, osp_hb_pwr_avg_count, osp_polling_mutex,
                 osp_polling_thread, osp_do_polling, watts, pending, reads, osp_log>>

(* lines 239-241 *)
ReadAccrue ==
  /\ caller = "read_accrue"
  /\ osp_total_energy' = Accrue(osp_total_energy, osp_hb_pwr_avg_last,
                               call.last_hb_time, call.curr_hb_time)
  /\ call' = [call EXCEPT !.joules = osp_total_energy']
  /\ caller' = "read_reset"
  /\ UNCHANGED <<engineVars, clock, device, osp_start_time, osp_hb_pwr_avg,
                 osp_hb_pwr_avg_last, osp_hb_pwr_avg_count, osp_polling_mutex,
                 osp_polling_thread, osp_do_polling, watts, pending, reads, osp_log>>

(* lines 243-244 *)
ReadReset ==
  /\ caller = "read_reset"
  /\ osp_hb_pwr_avg' = D(0)
  /\ osp_hb_pwr_avg_count' = 0
  /\ pending' = <<>>
  /\ caller' = "read_unlock"
  /\ UNCHANGED <<engineVars, clock, device, osp_start_time, osp_total_energy,
                 osp_hb_pwr_avg_last, osp_polling_mutex, osp_polling_thread,
                 osp_do_polling, watts, call, reads, osp_log>>

(* lines 245 and 260: unlock and return joules *)
ReadReturn ==
  /\ caller = "read_unlock"
  /\ osp_polling_mutex' = "free"
  /\ reads' = [returned |-> reads.returned + 1,
                consumed |-> reads.consumed + Len(call.batch),
                seen |-> IF call.avg # D(0) THEN call.avg ELSE reads.seen,
                last |-> call @@ [power |-> osp_hb_pwr_avg_last]]
  /\ caller' = "idle"
  /\ UNCHANGED <<engineVars, clock, device, osp_start_time, osp_total_energy,
                 osp_hb_pwr_avg, osp_hb_pwr_avg_last, osp_hb_pwr_avg_count,
                 osp_polling_thread, osp_do_polling, watts, call, pending, osp_log>>

hb_energy_read_total_osp ==
  \/ \E gap \in OspGaps : \E last \in {-1, PrevTs, clock + gap + 1} :
       ReadCall(last, gap)
  \/ ReadLock
  \/ ReadLast
  \/ ReadAccrue
  \/ ReadReset
  \/ ReadReturn

(* hb_energy_finish_osp(), lines 264-271: nothing to do without a device,    *)
(* else tell the worker to stop                                              *)
FinishCall ==
  /\ caller = "idle"
  /\ osp_log.finishes < 2
  /\ osp_log' = [osp_log EXCEPT !.finishes = @ + 1]
  /\ IF device = "NULL"
       THEN UNCHANGED <<osp_do_polling, caller>>
       ELSE /\ osp_do_polling' = 0
            /\ caller' = "finish_join"
  /\ UNCHANGED <<engineVars, clock, device, osp_start_time, osp_total_energy,
                 osp_hb_pwr_avg, osp_hb_pwr_avg_last, osp_hb_pwr_avg_count,
                 osp_polling_mutex, osp_polling_thread, watts, call, pending, reads>>

(* line 272: pthread_join returns once the worker has returned *)
FinishJoin ==
  /\ caller = "finish_join"
  /\ osp_polling_thread = "exited"
  /\ osp_polling_thread' = "joined"
  /\ caller' = "finish_close"
  /\ osp_log' = [osp_log EXCEPT !.join_of = "exited"]
  /\ UNCHANGED <<engineVars, clock, device, osp_start_time, osp_total_energy,
                 osp_hb_pwr_avg, osp_hb_pwr_avg_last, osp_hb_pwr_avg_count,
                 osp_polling_mutex, osp_do_polling, watts, call, pending, reads>>

(* lines 275-294: destroy the mutex, close the device, return 0 *)
FinishClose ==
  /\ caller = "finish_close"
  /\ osp_polling_mutex' = "destroyed"
  /\ device' = "NULL"
  /\ caller' = "idle"
  /\ osp_log' = [osp_log EXCEPT !.destroy_of = osp_polling_mutex]
  /\ UNCHANGED <<engineVars, clock, osp_start_time, osp_total_energy, osp_hb_pwr_avg,
                 osp_hb_pwr_avg_last, osp_hb_pwr_avg_count, osp_polling_thread,
                 osp_do_polling, watts, call, pending, reads>>

hb_energy_finish_osp ==
  \/ FinishCall
  \/ FinishJoin
  \/ FinishClose

NextOsp ==
  \/ \E fail \in {OspFailPoints[i] : i \in 1..Len(OspFailPoints)} \cup {"none"} :
       hb_energy_init_osp(fail)
  \/ osp_poll_device
  \/ hb_energy_read_total_osp
  \/ hb_energy_finish_osp

(* the engine is not constructed in the runs of the backend *)
InitOsp == Init /\ envName = "energy"

SpecOsp == InitOsp /\ [][NextOsp]_vars

(* the scheduler runs every thread that can take a step *)
FairSpecOsp ==
  SpecOsp /\ WF_vars(osp_poll_device) /\ WF_vars(hb_energy_finish_osp)

-----------------------------------------------------------------------------
(* The samples of a run, read off the history.  Beat i >= 2 passes the      *)
(* window the sample (time delta, accuracy, energy delta) against beat i-1; *)
(* beat 1 seeds slot 0 with (0, accuracy, 0).                               *)

NBeats == Len(hist)

DeltaT(i) == IF i = 1 THEN 0 ELSE hist[i].time - hist[i - 1].time

DeltaE(i) == IF i = 1 THEN D(0) ELSE Sub(hist[i].energy, hist[i - 1].energy)

RECURSIVE SumT(_, _)
SumT(from, to) == IF to < from THEN D(0) ELSE Add(SumT(from, to - 1), D(DeltaT(to)))

RECURSIVE SumA(_, _)
SumA(from, to) == IF to < from THEN D(0) ELSE Add(SumA(from, to - 1), hist[to].accuracy)

RECURSIVE SumE(_, _)
SumE(from, to) == IF to < from THEN D(0) ELSE Add(SumE(from, to - 1), DeltaE(to))

(* no call is between its read of the sensors and its update of the engine *)
Settled == \A t \in Threads : pc[t] # "sampled"

RECURSIVE Flatten(_)
Flatten(chunks) ==
  IF chunks = <<>> THEN <<>> ELSE Head(chunks) \o Flatten(Tail(chunks))

-----------------------------------------------------------------------------
(* C1: at every beat n > window_size the incrementally maintained window    *)
(* aggregates (window time sum, average time, accuracy average, window      *)
(* energy sum) equal a recomputation from scratch over exactly the last     *)
(* window_size samples passed to record.                                    *)
C1_WindowEqualsBruteForce ==
  (phase # "none" /\ NBeats > state.window_size) =>
    LET ws   == state.window_size
        from == NBeats - ws + 1
        sumT == SumT(from, NBeats)
    IN  /\ hb.last_window_time = sumT
        /\ hb.last_average_time = Div(sumT, D(ws))
        /\ hb.last_average_accuracy = Div(SumA(from, NBeats), D(ws))
        /\ hb.last_window_energy = SumE(from, NBeats)

(* a window of two or more slots that has wrapped around in steady state    *)
(* and holds unequal samples                                                *)
C1_Witness ==
  /\ phase = "running"
  /\ state.window_size >= 2
  /\ NBeats >= 2 * state.window_size + 1
  /\ DeltaT(NBeats) # DeltaT(NBeats - 1)
  /\ hist[NBeats].accuracy # hist[NBeats - 1].accuracy

(* C2 (as stated): for all n <= window_size, after n beats the reported     *)
(* window statistics equal an average over the n samples seen so far.       *)
C2_WarmUpAveragesAllBeats ==
  (phase # "none" /\ NBeats >= 1 /\ NBeats <= state.window_size) =>
    LET n   == NBeats
        rec == hist[n].rec
    IN  /\ rec.window_accuracy = Div(SumA(1, n), D(n))
        /\ n >= 2 => /\ rec.window_rate = Div(NSEC, Div(SumT(1, n), D(n)))
                     /\ rec.window_power = Div(SumE(1, n), Div(SumT(1, n), NSEC))

(* C3: steady_state is false after each of the first window_size record     *)
(* calls, true after call number window_size+1, and true ever after.        *)
C3_SteadyStateTransition ==
  phase # "none" => (hb.steady_state = 1 <=> NBeats >= state.window_size + 1)

(* record call window_size+1 has just set steady_state, for a window of     *)
(* two or more slots                                                        *)
C3_Witness ==
  /\ state.window_size >= 2
  /\ NBeats = state.window_size + 1
  /\ hb.steady_state = 1
  /\ \E t \in Threads : pc[t] = "recorded"

(* C4 (as stated): with a log sink, after any number of record calls        *)
(* followed by finish, the chunks written to the sink, concatenated, are    *)
(* the records of all beats, each once, in call order.                      *)
C4_SinkHoldsEveryBeatOnce ==
  (phase = "finished" /\ res.text_file = "closed" /\ res.counters = "init") =>
    Flatten(text_file) = [i \in 1..NBeats |-> Line(hist[i].rec)]

(* C5 (as stated): a record call flushes at wraparound iff it is beat       *)
(* number k*buffer_depth; the flush writes exactly buffer_depth records and *)
(* buffer_index is 0 afterwards.                                            *)
C5_FlushEveryDepthBeats ==
  (phase = "running" /\ res.text_file = "open") =>
    /\ \A i \in 1..NBeats :
         /\ hist[i].flush <=> (i % state.buffer_depth = 0)
         /\ hist[i].flush => hist[i].nrecords = state.buffer_depth
    /\ (NBeats >= 1 /\ NBeats % state.buffer_depth = 0) => state.buffer_index = 0

(* the lines of the sink that are records of calls *)
SinkRecords == SelectSeq(Flatten(text_file), LAMBDA l : l # GarbageLine)

(* C6: concurrent record calls are serialized by the engine lock: at most   *)
(* one call is inside at a time and it holds the lock; the calls get the    *)
(* consecutive beat numbers 0, 1, 2, ... in the order they ran, each        *)
(* computed against the beat just before it; calls not yet flushed have     *)
(* log slots of their own; and the records in the sink are in strictly      *)
(* increasing beat order, none twice.                                       *)
C6_RecordCallsSerialized ==
  /\ \A t, u \in Threads : (pc[t] # "idle" /\ pc[u] # "idle") => t = u
  /\ \A t \in Threads : pc[t] # "idle" => mutex = t
  /\ \A i \in 1..NBeats :
       /\ hist[i].rec.beat = i - 1
       /\ hist[i].rec.tag = hist[i].thread
       /\ i >= 2 => /\ hist[i].time > hist[i - 1].time
                    /\ hist[i].rec.instant_rate = Mul(Div(D(1), D(DeltaT(i))), NSEC)
  /\ \A i, j \in 1..NBeats :
       (i < j /\ \A k \in i..(j - 1) : ~hist[k].flush) => hist[i].index # hist[j].index
  /\ LET sink == SinkRecords
     IN  \A i \in 1..(Len(sink) - 1) : sink[i].beat < sink[i + 1].beat

(* both producers have recorded beats, one right after the other, and a     *)
(* wraparound flush has reached the sink                                    *)
C6_Witness ==
  /\ NBeats >= 3
  /\ \E i \in 1..(NBeats - 1) : hist[i].thread # hist[i + 1].thread
  /\ Len(SinkRecords) >= 2
  /\ \E t \in Threads : pc[t] = "locked"

(* the clock advanced by the same gap g before each of the first n beats *)
ConstantGap(n, g) == \A i \in 2..n : DeltaT(i) = g

(* C7: with a constant gap g between consecutive record calls, the          *)
(* global_rate logged for beat N >= 2 is N / ((N-1)*g) beats per second.    *)
C7_GlobalRateConstantGap ==
  \A N \in 2..NBeats : \A g \in Gaps :
    ConstantGap(N, g) =>
      hist[N].rec.global_rate = Div(D(N), Div(D((N - 1) * g), NSEC))

(* four beats, each 3 ns after the one before *)
C7_Witness == NBeats >= 4 /\ ConstantGap(NBeats, 3)

(* C8 (as stated): with window_size = 1, for every beat after the first the *)
(* window metrics equal the instantaneous metrics of that beat.             *)
C8_WindowOneEqualsInstant ==
  (phase # "none" /\ state.window_size = 1) =>
    \A i \in 2..NBeats :
      /\ hist[i].rec.window_rate = hist[i].rec.instant_rate
      /\ hist[i].rec.window_accuracy = hist[i].rec.instant_accuracy
      /\ hist[i].rec.window_power = hist[i].rec.instant_power

(* C9: the first record call logs rates and powers of zero, sets            *)
(* first_timestamp = last_timestamp = now and last_energy = the reading,    *)
(* seeds the accuracy accumulator with accuracy, leaves total_energy at 0   *)
(* and makes counter 1.                                                     *)
C9_FirstBeat ==
  (NBeats = 1 /\ Settled) =>
    LET rec == hist[1].rec
    IN  /\ rec.global_rate = D(0) /\ rec.window_rate = D(0) /\ rec.instant_rate = D(0)
        /\ rec.global_power = D(0) /\ rec.window_power = D(0)
        /\ rec.instant_power = D(0)
        /\ hb.first_timestamp = hist[1].time
        /\ hb.last_timestamp = hist[1].time
        /\ hb.last_energy = hist[1].energy
        /\ hb.global_accuracy = hist[1].accuracy
        /\ hb.total_energy = D(0)
        /\ state.counter = 1

(* the first call has just run, with a non-zero reading and accuracy *)
C9_Witness ==
  /\ NBeats = 1
  /\ \E t \in Threads : pc[t] = "recorded"
  /\ hist[1].energy # D(0)
  /\ hist[1].accuracy # D(0)

(* C10 (as stated): heartbeat_finish uses, destroys or removes only         *)
(* sub-resources that init had acquired or initialized before it ran.       *)
C10_FinishTouchesOnlyAcquired == finish_used \subseteq acquired

(* the resources of r that are still held: allocated, initialized, open or  *)
(* present                                                                  *)
Held(r) ==
  {f \in {"em", "state", "text_file", "log", "window", "accuracy_window",
          "power_window", "artifact"} :
       r[f] \in {"init", "alloc", "open", "present"}}

(* C11 (as stated): when init returns NULL, whatever its first failure,     *)
(* every sub-resource it had acquired before the failure (backend, state,   *)
(* log sink, log ring, window buffers) has been released and no published   *)
(* artifact remains.                                                        *)
C11_InitFailsClosed ==
  phase = "failed" => (Held(res) = {} /\ res.hb \in {"none", "freed"})

(* C12 (as stated): after finish on a successfully initialized engine the   *)
(* log sink is closed, the backend finalized, the published artifact        *)
(* removed, and the three window buffers, the log ring and the engine are   *)
(* freed.                                                                   *)
C12_FinishReleasesEverything ==
  (phase = "finished" /\ res.artifact = "removed") =>
    /\ res.text_file \in {"closed", "null"}
    /\ res.em = "finished"
    /\ res.window = "freed"
    /\ res.accuracy_window = "freed"
    /\ res.power_window = "freed"
    /\ res.log = "freed"
    /\ res.hb = "freed"

-----------------------------------------------------------------------------
(* The polling backend: the reads of a run, read off the history             *)

RECURSIVE SumSeq(_)
SumSeq(q) == IF q = <<>> THEN D(0) ELSE Add(Head(q), SumSeq(Tail(q)))

(* the arithmetic mean of a non-empty sequence of samples *)
Mean(q) == Div(SumSeq(q), D(Len(q)))

(* x >= y *)
Geq(x, y) == Sub(x, y).n >= 0

(* the seconds the last read converted power over *)
LastReadSeconds == diff_sec(reads.last.last_hb_time, reads.last.curr_hb_time)

(* C13: if the worker delivered no sample between two consecutive reads and  *)
(* an earlier read had seen a non-zero average, the later read accrues       *)
(* energy at that average: its result is the previous total plus that        *)
(* average times the seconds of its interval.                                *)
C13_CarryForward ==
  (reads.returned >= 1 /\ reads.last.batch = <<>> /\ reads.last.seen # D(0)) =>
    reads.last.joules = Add(reads.last.prev, Mul(reads.last.seen, LastReadSeconds))

(* a second read that found no sample, over an interval of non-zero length, *)
(* after a first read that saw a non-zero average                           *)
C13_Witness ==
  /\ reads.returned = 2
  /\ reads.last.batch = <<>>
  /\ reads.last.seen # D(0)
  /\ reads.last.curr_hb_time > reads.last.last_hb_time
  /\ reads.last.joules # reads.last.prev

(* C14 (as stated): a read uses the carried-forward average only when no    *)
(* sample arrived since the previous read; when one or more arrived, the    *)
(* energy it adds is the mean of exactly those samples times the seconds of *)
(* its interval.                                                            *)
C14_MeanOfTheSamples ==
  (reads.returned >= 1 /\ reads.last.batch # <<>>) =>
    /\ reads.last.power = Mean(reads.last.batch)
    /\ reads.last.joules =
         Add(reads.last.prev, Mul(Mean(reads.last.batch), LastReadSeconds))

(* the power the last read is to convert: the average it read if that is    *)
(* not zero, else the last non-zero average an earlier read saw             *)
LastKnown == IF reads.last.avg # D(0) THEN reads.last.avg ELSE reads.last.seen

(* C15: with non-negative samples and curr_ts >= last_ts (last_ts < 0       *)
(* standing for the backend's start time), every read returns the value the *)
(* previous read returned (0 before the first read) plus the last known     *)
(* power times the seconds from last_ts to curr_ts, and so never less than  *)
(* the previous read.                                                       *)
C15_ReadsAccumulate ==
  (/\ reads.returned >= 1
   /\ \A w \in Samples : Geq(w, D(0))
   /\ reads.last.curr_hb_time >= reads.last.last_hb_time) =>
    /\ reads.last.last_hb_time =
         (IF reads.last.arg_last < 0 THEN osp_start_time ELSE reads.last.arg_last)
    /\ reads.returned = 1 => reads.last.prev = D(0)
    /\ reads.last.joules = Add(reads.last.prev, Mul(LastKnown, LastReadSeconds))
    /\ Geq(reads.last.joules, reads.last.prev)

(* a second read that returned more than the first, which returned more    *)
(* than 0                                                                  *)
C15_Witness ==
  /\ reads.returned = 2
  /\ reads.last.curr_hb_time > reads.last.last_hb_time
  /\ reads.last.prev # D(0)
  /\ reads.last.joules # reads.last.prev
  /\ Geq(reads.last.joules, reads.last.prev)

-----------------------------------------------------------------------------
(* the slots of the three window arrays that have been written *)
WindowSlots == DOMAIN hb.window \cup DOMAIN hb.accuracy_window
                 \cup DOMAIN hb.power_window

(* C16: for every window_size >= 1, in every state reached by init and any  *)
(* number of record calls, 0 <= current_index < window_size, and every slot *)
(* of the three window arrays that was written lies inside the allocated    *)
(* length.                                                                  *)
C16_CurrentIndexInWindow ==
  phase \in {"running", "finished"} =>
    /\ hb.current_index \in 0..(state.window_size - 1)
    /\ WindowSlots \subseteq 0..(state.window_size - 1)

(* the window of two slots has wrapped around: current_index is back at 0   *)
(* after the beat that wrote the last slot                                  *)
C16_Witness ==
  /\ phase = "running"
  /\ state.window_size = 2
  /\ NBeats >= 3
  /\ hb.current_index = 0
  /\ WindowSlots = {0, 1}

(* C17 (as stated): for every buffer_depth >= 1, every record call writes   *)
(* its record at an index in [0, buffer_depth), every flush reads only      *)
(* indices in [0, buffer_depth), and after every record call                *)
(* 0 <= buffer_index < buffer_depth.                                        *)
C17_LogIndicesInRing ==
  phase \in {"running", "finished"} =>
    /\ \A i \in 1..NBeats :
         /\ hist[i].index \in 0..(state.buffer_depth - 1)
         /\ hist[i].flush => (0..(hist[i].nrecords - 1)) \subseteq
                                0..(state.buffer_depth - 1)
    /\ state.buffer_index \in 0..(state.buffer_depth - 1)

(* C18 (as stated): every record call, the first one included, advances    *)
(* buffer_index and read_index by one, each wrapping to 0 when it reaches   *)
(* buffer_depth: after n calls both are n modulo buffer_depth.              *)
C18_BothIndicesAdvance ==
  phase \in {"running", "finished"} =>
    /\ state.buffer_index = NBeats % state.buffer_depth
    /\ state.read_index = NBeats % state.buffer_depth

-----------------------------------------------------------------------------
(* the mean of the samples q, 0 for none: what the running average is to be *)
MeanOrZero(q) == IF q = <<>> THEN D(0) ELSE Mean(q)

(* the samples the worker has folded into the running average so far *)
Averaged == osp_log.samples + (IF osp_polling_thread = "count" THEN 1 ELSE 0)

(* the samples a read has taken over and not yet accounted for by returning *)
InFlight == IF caller = "read_unlock" THEN Len(call.batch) ELSE 0

(* C19: in every interleaving of the worker's updates with the reads, a     *)
(* thread is at a statement that reads or writes the running average or the *)
(* count only while it holds osp_polling_mutex; outside the worker's update *)
(* the running average is the arithmetic mean of the samples since the last *)
(* read-and-reset and the count is their number; every read consumed the    *)
(* mean of the samples it took over, and every sample averaged so far       *)
(* belongs to exactly one read or awaits the next one.                      *)
C19_SlotGuardedByLock ==
  /\ osp_polling_thread \in {"average", "count", "unlock"} =>
       osp_polling_mutex = "worker"
  /\ caller \in {"read_last", "read_accrue", "read_reset", "read_unlock"} =>
       osp_polling_mutex = "caller"
  /\ osp_polling_thread # "count" =>
       /\ osp_hb_pwr_avg = MeanOrZero(pending)
       /\ osp_hb_pwr_avg_count = Len(pending)
  /\ reads.last.avg = MeanOrZero(reads.last.batch)
  /\ Averaged = reads.consumed + InFlight + Len(pending)

(* a read has consumed the mean 1.5 W of two unlike samples, and the worker *)
(* waits with a third sample for the lock that the next read holds          *)
C19_Witness ==
  /\ reads.returned >= 1
  /\ reads.last.batch \in {<<D(0), D(3)>>, <<D(3), D(0)>>}
  /\ reads.last.avg = Div(D(3), D(2))
  /\ osp_polling_thread = "lock"
  /\ osp_polling_mutex = "caller"
  /\ caller = "read_reset"

-----------------------------------------------------------------------------
(* the statics of the backend and the position of its worker *)
backendStatics == <<device, osp_start_time, osp_total_energy, osp_hb_pwr_avg,
                osp_hb_pwr_avg_last, osp_hb_pwr_avg_count, osp_polling_mutex,
                osp_polling_thread, osp_do_polling>>

(* C20: a worker runs exactly when init has succeeded; once finish has set  *)
(* the stop flag the worker leaves its loop, the join returns and finish    *)
(* ends with the device closed (under fair scheduling); after finish has    *)
(* returned the worker is gone and the running average and the count no     *)
(* longer change; a finish without a device changes nothing.                *)
C20_WorkerStopsAtFinish ==
  /\ []((device = "open" /\ caller # "crashed") => osp_polling_thread # "none")
  /\ [](osp_polling_thread # "none" => osp_log.inits = 1)
  /\ (caller = "finish_join") ~> (caller = "idle" /\ device = "NULL")
  /\ []((caller = "idle" /\ device = "NULL") =>
          osp_polling_thread \in {"none", "joined"})
  /\ [][osp_polling_thread = "joined" =>
          UNCHANGED <<osp_polling_thread, osp_hb_pwr_avg, osp_hb_pwr_avg_count>>]_vars
  /\ [][(device = "NULL" /\ osp_log.finishes' # osp_log.finishes) =>
          UNCHANGED <<backendStatics, caller>>]_vars

(* finish has returned after the worker had averaged a sample, and a second *)
(* finish has been called since                                             *)
C20_Witness ==
  /\ osp_polling_thread = "joined"
  /\ device = "NULL"
  /\ caller = "idle"
  /\ osp_log.samples >= 1
  /\ osp_log.finishes = 2

(* C21 (as stated): when init fails after the device was opened and before  *)
(* the worker was created, the teardown it runs joins no worker that was    *)
(* never started and destroys no mutex that was never initialized.          *)
C21_TeardownOfPartialInit ==
  /\ osp_log.join_of # "none"
  /\ osp_log.destroy_of # "uninit"

(* C22 (as stated): for buffer_depth >= 1, after every record call the      *)
(* published read_index is the index of the log slot that holds the most    *)
(* recent beat's record: log[read_index].beat = counter - 1.                *)
C22_ReadIndexIsLatest ==
  (phase \in {"running", "finished"} /\ NBeats >= 1) =>
    /\ state.read_index \in DOMAIN log
    /\ log[state.read_index].beat = state.counter - 1

(* C23: after any n >= 1 record calls total_energy equals the backend       *)
(* reading of the latest beat minus the reading of the first beat, and      *)
(* last_energy and last_timestamp are the reading and the timestamp of the  *)
(* latest beat, whatever the backend returned in between.                   *)
C23_EnergyTelescopes ==
  (phase \in {"running", "finished"} /\ NBeats >= 1 /\ Settled) =>
    /\ hb.total_energy = Sub(hist[NBeats].energy, hist[1].energy)
    /\ hb.last_energy = hist[NBeats].energy
    /\ hb.last_timestamp = hist[NBeats].time

(* three beats whose readings go down and up again, the first not zero *)
C23_Witness ==
  /\ phase = "running"
  /\ NBeats >= 3
  /\ Settled
  /\ hist[1].energy # D(0)
  /\ hist[2].energy # hist[1].energy
  /\ hist[3].energy # hist[2].energy
=============================================================================
